---- MODULE Spec2Model ----
(***************************************************************************)
(* A model of the laney containers: the Deque (deque.go), the Queue and    *)
(* the Stack built on it, and the heap priority queue PQueue.              *)
(*                                                                         *)
(* The element type T is instantiated as the integers, so the zero value   *)
(* of T is 0.  A container/list is modelled as a sequence of values: an    *)
(* element pointer is an index into it and the nil pointer is 0.           *)
(***************************************************************************)
EXTENDS Integers, Sequences, FiniteSets, TLC

\* ------------------------------------------------------------------ bounds
\* Items stored in a deque, queue or stack are 0..MaxItem (0 is T's zero value).
MaxItem == 1
\* A deque is constructed with a capacity in -2..MaxCap.
MaxCap == 2
\* At most MaxInserts successful inserts are made on the deque.
MaxInserts == 4
\* Priorities pushed on the priority queue are 0..MaxPri.
MaxPri == 2
\* The priority queue holds at most MaxHeap entries.
MaxHeap == 4
\* At most MaxEnq items are enqueued on the queue / pushed on the stack.
MaxEnq == 4
\* Number of threads sharing a deque, and Append calls made by each.
NThreads == 2
MAppends == 3
\* Calls made in total by the threads that share a container for mixed use.
MCalls == 4
\* Calls made in total by the threads that use every method of a container.
MOps == 2

Items == 0..MaxItem
Capacities == (0 - 2)..MaxCap
Priorities == 0..MaxPri
Values == {0, 1}
Threads == 1..NThreads

\* ------------------------------------------------------- container/list
\* The zero value of the element type (var item T).
Zero == 0

\* list.Front / list.Back: the first / last element, nil (0) on an empty list.
Front(l) == IF Len(l) = 0 THEN 0 ELSE 1
Back(l) == Len(l)

PushBack(l, v) == Append(l, v)
PushFront(l, v) == <<v>> \o l

\* list.Remove(e): unlinks e and returns its value; dereferences e, so a nil
\* e is a fault.
Remove(l, e) ==
  IF e = 0
    THEN [list |-> l, value |-> Zero, panic |-> TRUE]
    ELSE [list |-> SubSeq(l, 1, e - 1) \o SubSeq(l, e + 1, Len(l)),
          value |-> l[e], panic |-> FALSE]

\* ------------------------------------------------------------------ Deque
\* A Deque is [container, capacity]; every method yields the deque after the
\* call (s), the value returned (ret) and whether the call faulted (panic).
NewCappedDeque(capacity) == [container |-> <<>>, capacity |-> capacity]

NewDeque == NewCappedDeque(0 - 1)

\* A faulty Append: the capacity test lets one item too many in.
Deque_AppendOffByOne(s, item) ==
  IF s.capacity < 0 \/ Len(s.container) <= s.capacity
    THEN [s |-> [s EXCEPT !.container = PushBack(s.container, item)],
          ret |-> TRUE, panic |-> FALSE]
    ELSE [s |-> s, ret |-> FALSE, panic |-> FALSE]

Deque_Append(s, item) ==
  IF s.capacity < 0 \/ Len(s.container) < s.capacity
    THEN [s |-> [s EXCEPT !.container = PushBack(s.container, item)],
          ret |-> TRUE, panic |-> FALSE]
    ELSE [s |-> s, ret |-> FALSE, panic |-> FALSE]

\* A faulty Prepend: the item goes to the back.
Deque_PrependAtBack(s, item) ==
  IF s.capacity < 0 \/ Len(s.container) < s.capacity
    THEN [s |-> [s EXCEPT !.container = PushBack(s.container, item)],
          ret |-> TRUE, panic |-> FALSE]
    ELSE [s |-> s, ret |-> FALSE, panic |-> FALSE]

Deque_Prepend(s, item) ==
  IF s.capacity < 0 \/ Len(s.container) < s.capacity
    THEN [s |-> [s EXCEPT !.container = PushFront(s.container, item)],
          ret |-> TRUE, panic |-> FALSE]
    ELSE [s |-> s, ret |-> FALSE, panic |-> FALSE]

\* A faulty Pop: the last value is returned but its node is not removed.
Deque_PopKeepsNode(s) ==
  LET lastContainerItem == Back(s.container)
  IN  IF lastContainerItem # 0
        THEN [s |-> s, ret |-> s.container[lastContainerItem], panic |-> FALSE]
        ELSE [s |-> s, ret |-> Zero, panic |-> FALSE]

Deque_Pop(s) ==
  LET lastContainerItem == Back(s.container)
  IN  IF lastContainerItem # 0
        THEN LET r == Remove(s.container, lastContainerItem)
             IN  [s |-> [s EXCEPT !.container = r.list],
                  ret |-> r.value, panic |-> r.panic]
        ELSE [s |-> s, ret |-> Zero, panic |-> FALSE]

\* A faulty Shift: the first element is removed without the nil test.
Deque_ShiftNoNilCheck(s) ==
  LET r == Remove(s.container, Front(s.container))
  IN  [s |-> [s EXCEPT !.container = r.list], ret |-> r.value, panic |-> r.panic]

Deque_Shift(s) ==
  LET firstContainerItem == Front(s.container)
  IN  IF firstContainerItem # 0
        THEN LET r == Remove(s.container, firstContainerItem)
             IN  [s |-> [s EXCEPT !.container = r.list],
                  ret |-> r.value, panic |-> r.panic]
        ELSE [s |-> s, ret |-> Zero, panic |-> FALSE]

\* A faulty First: it unlinks the element it returns.
Deque_FirstRemoves(s) == Deque_Shift(s)

Deque_First(s) ==
  LET item == Front(s.container)
  IN  IF item # 0
        THEN [s |-> s, ret |-> s.container[item], panic |-> FALSE]
        ELSE [s |-> s, ret |-> Zero, panic |-> FALSE]

Deque_Last(s) ==
  LET item == Back(s.container)
  IN  IF item # 0
        THEN [s |-> s, ret |-> s.container[item], panic |-> FALSE]
        ELSE [s |-> s, ret |-> Zero, panic |-> FALSE]

Deque_Size(s) == [s |-> s, ret |-> Len(s.container), panic |-> FALSE]

Deque_Capacity(s) == [s |-> s, ret |-> s.capacity, panic |-> FALSE]

Deque_Empty(s) == [s |-> s, ret |-> Len(s.container) = 0, panic |-> FALSE]

\* A faulty Full: a deque holding exactly capacity items is not reported full.
Deque_FullStrict(s) ==
  [s |-> s, ret |-> (s.capacity >= 0 /\ Len(s.container) > s.capacity),
   panic |-> FALSE]

Deque_Full(s) ==
  [s |-> s, ret |-> (s.capacity >= 0 /\ Len(s.container) >= s.capacity),
   panic |-> FALSE]

\* ------------------------------------------------------------ Queue, Stack
\* Queue and Stack embed a *Deque: their state is the deque's.
NewQueue == NewDeque

Queue_Enqueue(q, item) == [Deque_Prepend(q, item) EXCEPT !.ret = Zero]

\* A faulty Dequeue: it takes the item at the end Enqueue adds to.
Queue_DequeueFromFront(q) == Deque_Shift(q)

Queue_Dequeue(q) == Deque_Pop(q)

Queue_Head(q) == Deque_Last(q)

NewStack == NewDeque

Stack_Push(s, item) == [Deque_Prepend(s, item) EXCEPT !.ret = Zero]

\* A faulty Pop: it takes the item at the end opposite to Push's.
Stack_PopFromBack(s) == Deque_Pop(s)

Stack_Pop(s) == Deque_Shift(s)

Stack_Head(s) == Deque_First(s)

\* ----------------------------------------------------------------- PQueue
MAXPQ == 0
MINPQ == 1

\* An *item: ptr is FALSE for the nil pointer kept at index 0.
newItem(value, priority) == [value |-> value, priority |-> priority, ptr |-> TRUE]
NilItem == [value |-> Zero, priority |-> 0, ptr |-> FALSE]

\* A faulty max: the comparison is the other way round.
maxFlipped(i, j) == i > j

max(i, j) == i < j

min(i, j) == i > j

\* A PQueue is [items, elemsCount, comparator]; items is the slice, a function
\* on 0..len(items)-1.
NewPQueue(pqType) ==
  [items |-> [i \in 0..0 |-> NilItem],
   elemsCount |-> 0,
   comparator |-> IF pqType = MAXPQ THEN "max" ELSE "min"]

size(pq) == pq.elemsCount

len(items) == Cardinality(DOMAIN items)

comparator(pq, a, b) == IF pq.comparator = "max" THEN max(a, b) ELSE min(a, b)

less(pq, i, j) == comparator(pq, pq.items[i].priority, pq.items[j].priority)

\* A faulty exch: items[i] is overwritten before it is saved.
exchNoTmp(pq, i, j) ==
  [pq EXCEPT !.items = [pq.items EXCEPT ![i] = pq.items[j]]]

exch(pq, i, j) ==
  [pq EXCEPT !.items = [pq.items EXCEPT ![i] = pq.items[j], ![j] = pq.items[i]]]

\* A faulty swim: it stops after one exchange.
swimOnce(pq, k) ==
  IF k > 1 /\ less(pq, k \div 2, k) THEN exch(pq, k \div 2, k) ELSE pq

RECURSIVE swim(_, _)
swim(pq, k) ==
  IF k > 1 /\ less(pq, k \div 2, k)
    THEN swim(exch(pq, k \div 2, k), k \div 2)
    ELSE pq

\* A faulty sink: the two children are not compared, the left one is taken.
RECURSIVE sinkFirstChild(_, _)
sinkFirstChild(pq, k) ==
  IF 2 * k <= size(pq)
    THEN LET j == 2 * k
         IN  IF ~less(pq, k, j) THEN pq ELSE sinkFirstChild(exch(pq, k, j), j)
    ELSE pq

RECURSIVE sink(_, _)
sink(pq, k) ==
  IF 2 * k <= size(pq)
    THEN LET j == IF 2 * k < size(pq) /\ less(pq, 2 * k, 2 * k + 1)
                    THEN 2 * k + 1
                    ELSE 2 * k
         IN  IF ~less(pq, k, j) THEN pq ELSE sink(exch(pq, k, j), j)
    ELSE pq

\* The swim loop, counted: the exchanges it makes and the index it stops at.
\* A faulty swim loop: it climbs to k - 1 instead of k / 2.
RECURSIVE swimTraceByOne(_, _)
swimTraceByOne(pq, k) ==
  IF k > 1 /\ less(pq, k - 1, k)
    THEN LET r == swimTraceByOne(exch(pq, k - 1, k), k - 1)
         IN  [exch |-> r.exch + 1, k |-> r.k]
    ELSE [exch |-> 0, k |-> k]

RECURSIVE swimTrace(_, _)
swimTrace(pq, k) ==
  IF k > 1 /\ less(pq, k \div 2, k)
    THEN LET r == swimTrace(exch(pq, k \div 2, k), k \div 2)
         IN  [exch |-> r.exch + 1, k |-> r.k]
    ELSE [exch |-> 0, k |-> k]

\* The sink loop, counted: the exchanges it makes and the indices of items it
\* reads.
RECURSIVE sinkTrace(_, _)
sinkTrace(pq, k) ==
  IF 2 * k <= size(pq)
    THEN LET j == IF 2 * k < size(pq) /\ less(pq, 2 * k, 2 * k + 1)
                    THEN 2 * k + 1
                    ELSE 2 * k
             here == {k, 2 * k, j} \cup
                     (IF 2 * k < size(pq) THEN {2 * k + 1} ELSE {})
         IN  IF ~less(pq, k, j)
               THEN [exch |-> 0, reads |-> here]
               ELSE LET r == sinkTrace(exch(pq, k, j), j)
                    IN  [exch |-> r.exch + 1, reads |-> here \cup r.reads]
    ELSE [exch |-> 0, reads |-> {}]

\* append(pq.items, item)
append(items, item) ==
  [i \in 0..len(items) |-> IF i = len(items) THEN item ELSE items[i]]

\* pq.items[lo:hi]
slice(items, lo, hi) == [i \in 0..(hi - lo - 1) |-> items[lo + i]]

\* An index expression pq.items[i] faults when i is out of range; reading a
\* field through the nil pointer faults too.
faults(items, i) == i \notin DOMAIN items \/ ~items[i].ptr

NoItem == [value |-> Zero, priority |-> 0]

\* The queue as Push hands it to swim, and as Pop hands it to sink.
beforeSwim(pq, value, priority) ==
  [pq EXCEPT !.items = append(pq.items, newItem(value, priority)),
             !.elemsCount = pq.elemsCount + 1]

beforeSink(pq) ==
  LET pq1 == exch(pq, 1, size(pq))
  IN  [pq1 EXCEPT !.items = slice(pq1.items, 0, size(pq1)),
                  !.elemsCount = pq1.elemsCount - 1]

PQueue_Push(pq, value, priority) ==
  LET item == newItem(value, priority)
      pq1 == [pq EXCEPT !.items = append(pq.items, item)]
      pq2 == [pq1 EXCEPT !.elemsCount = pq1.elemsCount + 1]
  IN  [pq |-> swim(pq2, size(pq2)), ret |-> NoItem, panic |-> FALSE]

\* A faulty Pop: the test for an empty queue is missing.
PQueue_PopNoEmptyCheck(pq) ==
  IF faults(pq.items, 1) \/ faults(pq.items, size(pq))
    THEN [pq |-> pq, ret |-> NoItem, panic |-> TRUE]
    ELSE LET max_ == pq.items[1]
             pq1 == exch(pq, 1, size(pq))
             pq2 == [pq1 EXCEPT !.items = slice(pq1.items, 0, size(pq1))]
             pq3 == [pq2 EXCEPT !.elemsCount = pq2.elemsCount - 1]
         IN  [pq |-> sink(pq3, 1),
              ret |-> [value |-> max_.value, priority |-> max_.priority],
              panic |-> FALSE]

PQueue_Pop(pq) ==
  IF size(pq) < 1
    THEN [pq |-> pq, ret |-> NoItem, panic |-> FALSE]
    ELSE IF faults(pq.items, 1) \/ faults(pq.items, size(pq))
      THEN [pq |-> pq, ret |-> NoItem, panic |-> TRUE]
      ELSE LET max_ == pq.items[1]
               pq1 == exch(pq, 1, size(pq))
               pq2 == [pq1 EXCEPT !.items = slice(pq1.items, 0, size(pq1))]
               pq3 == [pq2 EXCEPT !.elemsCount = pq2.elemsCount - 1]
           IN  [pq |-> sink(pq3, 1),
                ret |-> [value |-> max_.value, priority |-> max_.priority],
                panic |-> FALSE]

PQueue_Head(pq) ==
  IF size(pq) < 1
    THEN [pq |-> pq, ret |-> NoItem, panic |-> FALSE]
    ELSE IF faults(pq.items, 1)
      THEN [pq |-> pq, ret |-> NoItem, panic |-> TRUE]
      ELSE [pq |-> pq,
            ret |-> [value |-> pq.items[1].value,
                     priority |-> pq.items[1].priority],
            panic |-> FALSE]

PQueue_Size(pq) == [pq |-> pq, ret |-> size(pq), panic |-> FALSE]

PQueue_Empty(pq) == [pq |-> pq, ret |-> (size(pq) = 0), panic |-> FALSE]

\* ------------------------------------------------------------------ state
VARIABLES
  \* a deque driven by one caller
  deque,      \* the Deque
  dOp,        \* the last method called on it
  dArg,       \* the item passed to it
  dRet,       \* the value it returned
  dPanic,     \* whether it faulted
  dPre,       \* the container before the call
  ref,        \* the reference sequence of the deque's content
  refRet,     \* <<v>> when the reference sequence says the call returns v
  inserts,    \* inserts that returned true
  removals,   \* Pop/Shift calls made on a non-empty deque
  \* a priority queue driven by one caller
  pq, pqOp, pqRet, pqPanic, pqPre,
  popped,     \* the pairs returned by the Pops made since the last Push
  pushes,     \* Push calls
  pops,       \* Pop calls made on a non-empty queue
  live,       \* how many times each pair was pushed and not yet popped
  \* a Queue driven by one caller
  queue, qOp, qRet, qPanic, qPre,
  enqLog,     \* every item enqueued, in order
  nDeq,       \* Dequeue calls made on a non-empty queue
  qExp,       \* <<v>> when FIFO order says the call returns v
  \* a Stack driven by one caller
  stack, sOp, sRet, sPanic, sPre,
  pushLog,    \* every item pushed, in order
  poppedIdx,  \* the positions of pushLog already popped
  sExp,       \* <<v>> when LIFO order says the call returns v
  \* a deque shared by Threads
  cdeque,     \* the shared Deque
  writer,     \* the thread holding the RWMutex for writing, 0 if none
  readers,    \* the threads holding it for reading
  pc,         \* each thread's position in its current call
  calls,      \* each thread's completed calls
  ok,         \* each thread's result of the capacity test or nil test
  snap,       \* each thread's view of the list while it links its node
  rets,       \* each thread's returned values, in order
  cpq,        \* the shared PQueue
  inst,       \* which shared container the threads call: "deque" or "pq"
  local,      \* each thread's local *item (Push's item, Pop's max)
  got         \* the value each thread's last Pop, Shift or read returned, printed

dequeVars == <<deque, dOp, dArg, dRet, dPanic, dPre, ref, refRet, inserts, removals>>
pqVars == <<pq, pqOp, pqRet, pqPanic, pqPre, popped, pushes, pops, live>>
queueVars == <<queue, qOp, qRet, qPanic, qPre, enqLog, nDeq, qExp>>
stackVars == <<stack, sOp, sRet, sPanic, sPre, pushLog, poppedIdx, sExp>>
concVars == <<cdeque, writer, readers, pc, calls, ok, snap, rets, cpq, inst, local, got>>
vars == <<dequeVars, pqVars, queueVars, stackVars, concVars>>

\* ------------------------------------------------- the deque, one caller
DequeNew(capacity) ==
  /\ deque = NewCappedDeque(capacity)
  /\ dOp = "New" /\ dArg = Zero /\ dRet = Zero /\ dPanic = FALSE
  /\ dPre = <<>> /\ ref = <<>> /\ refRet = <<>>
  /\ inserts = 0 /\ removals = 0

DequeInit == \E capacity \in Capacities : DequeNew(capacity)

DequeIdle == DequeNew(0 - 1)

\* The call `name` with result r, the reference sequence after it (nref) and
\* the value the reference sequence has it return (nret).
DequeCall(name, item, r, nref, nret) ==
  /\ deque' = r.s
  /\ dOp' = name /\ dArg' = item /\ dRet' = r.ret /\ dPanic' = r.panic
  /\ dPre' = deque.container
  /\ ref' = nref /\ refRet' = nret
  /\ UNCHANGED <<pqVars, queueVars, stackVars, concVars>>

DoAppend(item) ==
  /\ inserts < MaxInserts
  /\ LET r == Deque_Append(deque, item)
     IN  /\ DequeCall("Append", item, r,
                      IF r.ret THEN ref \o <<item>> ELSE ref, <<>>)
         /\ inserts' = IF r.ret THEN inserts + 1 ELSE inserts
  /\ UNCHANGED removals

DoPrepend(item) ==
  /\ inserts < MaxInserts
  /\ LET r == Deque_Prepend(deque, item)
     IN  /\ DequeCall("Prepend", item, r,
                      IF r.ret THEN <<item>> \o ref ELSE ref, <<>>)
         /\ inserts' = IF r.ret THEN inserts + 1 ELSE inserts
  /\ UNCHANGED removals

DoPop ==
  /\ DequeCall("Pop", Zero, Deque_Pop(deque),
               IF ref = <<>> THEN ref ELSE SubSeq(ref, 1, Len(ref) - 1),
               IF ref = <<>> THEN <<>> ELSE <<ref[Len(ref)]>>)
  /\ removals' = IF Deque_Size(deque).ret > 0 THEN removals + 1 ELSE removals
  /\ UNCHANGED inserts

DoShift ==
  /\ DequeCall("Shift", Zero, Deque_Shift(deque),
               IF ref = <<>> THEN ref ELSE Tail(ref),
               IF ref = <<>> THEN <<>> ELSE <<Head(ref)>>)
  /\ removals' = IF Deque_Size(deque).ret > 0 THEN removals + 1 ELSE removals
  /\ UNCHANGED inserts

DoFirst ==
  /\ DequeCall("First", Zero, Deque_First(deque), ref,
               IF ref = <<>> THEN <<>> ELSE <<Head(ref)>>)
  /\ UNCHANGED <<inserts, removals>>

DoLast ==
  /\ DequeCall("Last", Zero, Deque_Last(deque), ref,
               IF ref = <<>> THEN <<>> ELSE <<ref[Len(ref)]>>)
  /\ UNCHANGED <<inserts, removals>>

DoSize ==
  /\ DequeCall("Size", Zero, Deque_Size(deque), ref, <<>>)
  /\ UNCHANGED <<inserts, removals>>

DoCapacity ==
  /\ DequeCall("Capacity", Zero, Deque_Capacity(deque), ref, <<>>)
  /\ UNCHANGED <<inserts, removals>>

DoEmpty ==
  /\ DequeCall("Empty", Zero, Deque_Empty(deque), ref, <<>>)
  /\ UNCHANGED <<inserts, removals>>

DoFull ==
  /\ DequeCall("Full", Zero, Deque_Full(deque), ref, <<>>)
  /\ UNCHANGED <<inserts, removals>>

DequeNext ==
  \/ \E item \in Items : DoAppend(item)
  \/ \E item \in Items : DoPrepend(item)
  \/ DoPop
  \/ DoShift
  \/ DoFirst
  \/ DoLast
  \/ DoSize
  \/ DoCapacity
  \/ DoEmpty
  \/ DoFull

\* ---------------------------------------- the priority queue, one caller
\* The pairs a caller may push.
Pairs == [value : Values, priority : Priorities]

PQNew(pqType) ==
  /\ pq = NewPQueue(pqType)
  /\ pqOp = "New" /\ pqRet = NoItem /\ pqPanic = FALSE
  /\ pqPre = NewPQueue(pqType)
  /\ popped = <<>> /\ pushes = 0 /\ pops = 0
  /\ live = [p \in Pairs |-> 0]

PQInit == \E pqType \in {MAXPQ, MINPQ} : PQNew(pqType)

PQIdle == PQNew(MAXPQ)

PQCall(name, r) ==
  /\ pq' = r.pq
  /\ pqOp' = name /\ pqRet' = r.ret /\ pqPanic' = r.panic
  /\ pqPre' = pq
  /\ UNCHANGED <<dequeVars, queueVars, stackVars, concVars>>

DoPush(value, priority) ==
  /\ pushes < MaxHeap
  /\ PQCall("Push", PQueue_Push(pq, value, priority))
  /\ popped' = <<>>
  /\ pushes' = pushes + 1
  /\ live' = [live EXCEPT ![[value |-> value, priority |-> priority]] = @ + 1]
  /\ UNCHANGED pops

DoPQPop ==
  /\ PQCall("Pop", PQueue_Pop(pq))
  /\ popped' = IF PQueue_Size(pq).ret > 0
                 THEN Append(popped, PQueue_Pop(pq).ret)
                 ELSE popped
  /\ pops' = IF PQueue_Size(pq).ret > 0 THEN pops + 1 ELSE pops
  /\ live' = IF PQueue_Size(pq).ret > 0
               THEN [live EXCEPT ![PQueue_Pop(pq).ret] = @ - 1]
               ELSE live
  /\ UNCHANGED pushes

DoPQHead ==
  /\ PQCall("Head", PQueue_Head(pq))
  /\ UNCHANGED <<popped, pushes, pops, live>>

DoPQSize ==
  /\ PQCall("Size", PQueue_Size(pq))
  /\ UNCHANGED <<popped, pushes, pops, live>>

DoPQEmpty ==
  /\ PQCall("Empty", PQueue_Empty(pq))
  /\ UNCHANGED <<popped, pushes, pops, live>>

PQNext ==
  \/ \E value \in Values, priority \in Priorities : DoPush(value, priority)
  \/ DoPQPop
  \/ DoPQHead
  \/ DoPQSize
  \/ DoPQEmpty

\* -------------------------------------------------- the Queue, one caller
QueueInit ==
  /\ queue = NewQueue
  /\ qOp = "New" /\ qRet = Zero /\ qPanic = FALSE /\ qPre = <<>>
  /\ enqLog = <<>> /\ nDeq = 0 /\ qExp = <<>>

QueueCall(name, r) ==
  /\ queue' = r.s
  /\ qOp' = name /\ qRet' = r.ret /\ qPanic' = r.panic
  /\ qPre' = queue.container
  /\ UNCHANGED <<dequeVars, pqVars, stackVars, concVars>>

DoEnqueue(item) ==
  /\ Len(enqLog) < MaxEnq
  /\ QueueCall("Enqueue", Queue_Enqueue(queue, item))
  /\ enqLog' = Append(enqLog, item)
  /\ qExp' = <<>>
  /\ UNCHANGED nDeq

DoDequeue ==
  /\ QueueCall("Dequeue", Queue_Dequeue(queue))
  /\ qExp' = IF nDeq < Len(enqLog) THEN <<enqLog[nDeq + 1]>> ELSE <<>>
  /\ nDeq' = IF nDeq < Len(enqLog) THEN nDeq + 1 ELSE nDeq
  /\ UNCHANGED enqLog

DoQueueHead ==
  /\ QueueCall("Head", Queue_Head(queue))
  /\ qExp' = IF nDeq < Len(enqLog) THEN <<enqLog[nDeq + 1]>> ELSE <<>>
  /\ UNCHANGED <<enqLog, nDeq>>

QueueNext ==
  \/ \E item \in Items : DoEnqueue(item)
  \/ DoDequeue
  \/ DoQueueHead

\* -------------------------------------------------- the Stack, one caller
StackInit ==
  /\ stack = NewStack
  /\ sOp = "New" /\ sRet = Zero /\ sPanic = FALSE /\ sPre = <<>>
  /\ pushLog = <<>> /\ poppedIdx = {} /\ sExp = <<>>

\* The positions of pushLog not yet popped, and the latest of them.
Live == (1..Len(pushLog)) \ poppedIdx
Top == CHOOSE i \in Live : \A j \in Live : j <= i

StackCall(name, r) ==
  /\ stack' = r.s
  /\ sOp' = name /\ sRet' = r.ret /\ sPanic' = r.panic
  /\ sPre' = stack.container
  /\ UNCHANGED <<dequeVars, pqVars, queueVars, concVars>>

DoStackPush(item) ==
  /\ Len(pushLog) < MaxEnq
  /\ StackCall("Push", Stack_Push(stack, item))
  /\ pushLog' = Append(pushLog, item)
  /\ sExp' = <<>>
  /\ UNCHANGED poppedIdx

DoStackPop ==
  /\ StackCall("Pop", Stack_Pop(stack))
  /\ sExp' = IF Live # {} THEN <<pushLog[Top]>> ELSE <<>>
  /\ poppedIdx' = IF Live # {} THEN poppedIdx \cup {Top} ELSE poppedIdx
  /\ UNCHANGED pushLog

DoStackHead ==
  /\ StackCall("Head", Stack_Head(stack))
  /\ sExp' = IF Live # {} THEN <<pushLog[Top]>> ELSE <<>>
  /\ UNCHANGED <<pushLog, poppedIdx>>

StackNext ==
  \/ \E item \in Items : DoStackPush(item)
  \/ DoStackPop
  \/ DoStackHead

\* ------------------------------------- a deque shared by appending threads
\* Thread t's k-th Append passes the item <<t, k>>.
ConcInit ==
  /\ cdeque = NewDeque
  /\ writer = 0 /\ readers = {}
  /\ pc = [t \in Threads |-> "Lock"]
  /\ calls = [t \in Threads |-> 0]
  /\ ok = [t \in Threads |-> FALSE]
  /\ snap = [t \in Threads |-> <<>>]
  /\ rets = [t \in Threads |-> <<>>]
  /\ cpq = NewPQueue(MAXPQ) /\ inst = "deque"
  /\ local = [t \in Threads |-> NilItem]
  /\ got = [t \in Threads |-> ToString(Zero)]

\* A faulty Lock: it returns whoever holds the mutex.
LockNoExclusion(w, r) == TRUE

\* s.Lock() returns once no thread holds the RWMutex, w the writer (0: none)
\* and r the readers.
Lock(w, r) == w = 0 /\ r = {}

\* s.Lock()
AppendLock(t) ==
  /\ pc[t] = "Lock" /\ calls[t] < MAppends
  /\ Lock(writer, readers)
  /\ writer' = t
  /\ pc' = [pc EXCEPT ![t] = "Test"]
  /\ UNCHANGED <<cdeque, readers, calls, ok, snap, rets>>
  /\ UNCHANGED <<dequeVars, pqVars, queueVars, stackVars>>
  /\ UNCHANGED <<cpq, inst, local, got>>

\* if s.capacity < 0 || s.container.Len() < s.capacity
AppendTest(t) ==
  /\ pc[t] = "Test"
  /\ ok' = [ok EXCEPT ![t] = Deque_Append(cdeque, <<t, calls[t] + 1>>).ret]
  /\ pc' = [pc EXCEPT ![t] = IF ok'[t] THEN "PushBack" ELSE "Unlock"]
  /\ UNCHANGED <<cdeque, writer, readers, calls, snap, rets>>
  /\ UNCHANGED <<dequeVars, pqVars, queueVars, stackVars>>
  /\ UNCHANGED <<cpq, inst, local, got>>

\* s.container.PushBack(item) reads the list's links ...
AppendPushBack(t) ==
  /\ pc[t] = "PushBack"
  /\ snap' = [snap EXCEPT ![t] = cdeque.container]
  /\ pc' = [pc EXCEPT ![t] = "Link"]
  /\ UNCHANGED <<cdeque, writer, readers, calls, ok, rets>>
  /\ UNCHANGED <<dequeVars, pqVars, queueVars, stackVars>>
  /\ UNCHANGED <<cpq, inst, local, got>>

\* ... and then writes them to link the new node after the last one it saw.
AppendLink(t) ==
  /\ pc[t] = "Link"
  /\ cdeque' = [cdeque EXCEPT
                  !.container = PushBack(snap[t], <<t, calls[t] + 1>>)]
  /\ pc' = [pc EXCEPT ![t] = "Unlock"]
  /\ UNCHANGED <<writer, readers, calls, ok, snap, rets>>
  /\ UNCHANGED <<dequeVars, pqVars, queueVars, stackVars>>
  /\ UNCHANGED <<cpq, inst, local, got>>

\* defer s.Unlock(); return
AppendUnlock(t) ==
  /\ pc[t] = "Unlock"
  /\ writer' = 0
  /\ rets' = [rets EXCEPT ![t] = Append(rets[t], ok[t])]
  /\ calls' = [calls EXCEPT ![t] = calls[t] + 1]
  /\ pc' = [pc EXCEPT ![t] = "Lock"]
  /\ UNCHANGED <<cdeque, readers, ok, snap>>
  /\ UNCHANGED <<dequeVars, pqVars, queueVars, stackVars>>
  /\ UNCHANGED <<cpq, inst, local, got>>

ConcNext ==
  \E t \in Threads :
    \/ AppendLock(t)
    \/ AppendTest(t)
    \/ AppendPushBack(t)
    \/ AppendLink(t)
    \/ AppendUnlock(t)

\* ------------------------------- a deque shared by threads, every method
\* What a step of a deque method leaves alone besides the thread's own state.
DequeStepFrame ==
  /\ UNCHANGED <<dequeVars, pqVars, queueVars, stackVars>>
  /\ UNCHANGED <<cpq, inst, local, got>>

\* s.Lock()
PrependLock(t) ==
  /\ pc[t] = "Lock" /\ calls[t] < MAppends
  /\ Lock(writer, readers)
  /\ writer' = t
  /\ pc' = [pc EXCEPT ![t] = "PTest"]
  /\ UNCHANGED <<cdeque, readers, calls, ok, snap, rets>>
  /\ DequeStepFrame

\* if s.capacity < 0 || s.container.Len() < s.capacity
PrependTest(t) ==
  /\ pc[t] = "PTest"
  /\ ok' = [ok EXCEPT ![t] = Deque_Prepend(cdeque, <<t, calls[t] + 1>>).ret]
  /\ pc' = [pc EXCEPT ![t] = IF ok'[t] THEN "PushFront" ELSE "PUnlock"]
  /\ UNCHANGED <<cdeque, writer, readers, calls, snap, rets>>
  /\ DequeStepFrame

\* s.container.PushFront(item) reads the list's links ...
PrependPushFront(t) ==
  /\ pc[t] = "PushFront"
  /\ snap' = [snap EXCEPT ![t] = cdeque.container]
  /\ pc' = [pc EXCEPT ![t] = "PLink"]
  /\ UNCHANGED <<cdeque, writer, readers, calls, ok, rets>>
  /\ DequeStepFrame

\* ... and then writes them to link the new node before the first one it saw.
PrependLink(t) ==
  /\ pc[t] = "PLink"
  /\ cdeque' = [cdeque EXCEPT
                  !.container = PushFront(snap[t], <<t, calls[t] + 1>>)]
  /\ pc' = [pc EXCEPT ![t] = "PUnlock"]
  /\ UNCHANGED <<writer, readers, calls, ok, snap, rets>>
  /\ DequeStepFrame

\* defer s.Unlock(); return
PrependUnlock(t) ==
  /\ pc[t] = "PUnlock"
  /\ writer' = 0
  /\ rets' = [rets EXCEPT ![t] = Append(rets[t], ok[t])]
  /\ calls' = [calls EXCEPT ![t] = calls[t] + 1]
  /\ pc' = [pc EXCEPT ![t] = "Lock"]
  /\ UNCHANGED <<cdeque, readers, ok, snap>>
  /\ DequeStepFrame

\* Pop and Shift: m is the method, "Pop" or "Shift".
Removers == {"Pop", "Shift"}

\* s.Lock()
RemoveLock(t, m) ==
  /\ pc[t] = "Lock" /\ calls[t] < MAppends
  /\ Lock(writer, readers)
  /\ writer' = t
  /\ pc' = [pc EXCEPT ![t] = m]
  /\ UNCHANGED <<cdeque, readers, calls, ok, snap, rets>>
  /\ DequeStepFrame

\* lastContainerItem = s.container.Back() (Shift: Front()), and the nil test
RemoveTest(t) ==
  /\ pc[t] \in Removers
  /\ ok' = [ok EXCEPT ![t] = IF pc[t] = "Pop"
                               THEN Back(cdeque.container) # 0
                               ELSE Front(cdeque.container) # 0]
  /\ pc' = [pc EXCEPT ![t] = IF ok'[t] THEN pc[t] \o "Remove"
                                       ELSE pc[t] \o "Unlock"]
  /\ UNCHANGED <<cdeque, writer, readers, calls, snap, rets>>
  /\ DequeStepFrame

\* item = s.container.Remove(lastContainerItem).(T)
RemoveRemove(t) ==
  /\ pc[t] \in {"PopRemove", "ShiftRemove"}
  /\ LET r == IF pc[t] = "PopRemove" THEN Deque_Pop(cdeque)
                                     ELSE Deque_Shift(cdeque)
     IN  /\ cdeque' = r.s
         /\ got' = [got EXCEPT ![t] = ToString(r.ret)]
  /\ pc' = [pc EXCEPT ![t] = IF pc[t] = "PopRemove" THEN "PopUnlock"
                                                    ELSE "ShiftUnlock"]
  /\ UNCHANGED <<writer, readers, calls, ok, snap, rets>>
  /\ UNCHANGED <<dequeVars, pqVars, queueVars, stackVars>>
  /\ UNCHANGED <<cpq, inst, local>>

\* defer s.Unlock(); return item
RemoveUnlock(t) ==
  /\ pc[t] \in {"PopUnlock", "ShiftUnlock"}
  /\ writer' = 0
  /\ got' = [got EXCEPT ![t] = IF ok[t] THEN got[t] ELSE ToString(Zero)]
  /\ calls' = [calls EXCEPT ![t] = calls[t] + 1]
  /\ pc' = [pc EXCEPT ![t] = "Lock"]
  /\ UNCHANGED <<cdeque, readers, ok, snap, rets>>
  /\ UNCHANGED <<dequeVars, pqVars, queueVars, stackVars>>
  /\ UNCHANGED <<cpq, inst, local>>

RECURSIVE Sum(_, _)
Sum(f, S) == IF S = {} THEN 0
             ELSE LET x == CHOOSE y \in S : TRUE IN f[x] + Sum(f, S \ {x})

\* The calls started so far, and whether the threads may start another.
Started == Sum(calls, Threads) + Cardinality({t \in Threads : pc[t] # "Lock"})
Budget == Started < MCalls

\* A deque of capacity c >= 0 shared by threads that insert and remove.
CappedInit ==
  /\ \E c \in 0..MaxCap : cdeque = NewCappedDeque(c)
  /\ writer = 0 /\ readers = {}
  /\ pc = [t \in Threads |-> "Lock"]
  /\ calls = [t \in Threads |-> 0]
  /\ ok = [t \in Threads |-> FALSE]
  /\ snap = [t \in Threads |-> <<>>]
  /\ rets = [t \in Threads |-> <<>>]
  /\ cpq = NewPQueue(MAXPQ) /\ inst = "deque"
  /\ local = [t \in Threads |-> NilItem]
  /\ got = [t \in Threads |-> ToString(Zero)]

CappedNext ==
  \E t \in Threads :
    \/ Budget /\ AppendLock(t)
    \/ AppendTest(t)
    \/ AppendPushBack(t)
    \/ AppendLink(t)
    \/ AppendUnlock(t)
    \/ Budget /\ PrependLock(t)
    \/ PrependTest(t)
    \/ PrependPushFront(t)
    \/ PrependLink(t)
    \/ PrependUnlock(t)
    \/ \E m \in Removers : Budget /\ RemoveLock(t, m)
    \/ RemoveTest(t)
    \/ RemoveRemove(t)
    \/ RemoveUnlock(t)

\* -------------------------------------------- a PQueue shared by threads
\* What a step of Push or Pop leaves alone besides its own locals, the lock
\* and the queue.
PQStepFrame ==
  /\ UNCHANGED <<dequeVars, pqVars, queueVars, stackVars>>
  /\ UNCHANGED <<cdeque, readers, ok, snap, inst, got>>

\* An index used by swim, sink, exch or the slice expression is out of range.
OutOfRange(q) == size(q) >= len(q.items)

\* The thread's step runs into a fault and the thread stops where it is.
Panics(t) == pc' = [pc EXCEPT ![t] = "Panic"]

\* The priorities the threads push with.
SharedPriorities == {0, 1}

\* item := newItem(value, priority); pq.Lock().  Thread t's pushes carry
\* values no other push carries.  The item is local to the thread until it is
\* appended, so its creation is taken together with the Lock.
PushLock(t, priority) ==
  /\ pc[t] = "Lock" /\ calls[t] < MAppends
  /\ Lock(writer, readers)
  /\ writer' = t
  /\ local' = [local EXCEPT ![t] = newItem(calls[t] * NThreads + t, priority)]
  /\ pc' = [pc EXCEPT ![t] = "PushAppend"]
  /\ UNCHANGED <<calls, rets, cpq>>
  /\ PQStepFrame

\* pq.items = append(pq.items, item)
PushAppend(t) ==
  /\ pc[t] = "PushAppend"
  /\ cpq' = [cpq EXCEPT !.items = append(cpq.items, local[t])]
  /\ pc' = [pc EXCEPT ![t] = "PushCount"]
  /\ UNCHANGED <<writer, calls, rets, local>>
  /\ PQStepFrame

\* pq.elemsCount += 1
PushCount(t) ==
  /\ pc[t] = "PushCount"
  /\ cpq' = [cpq EXCEPT !.elemsCount = cpq.elemsCount + 1]
  /\ pc' = [pc EXCEPT ![t] = "PushSwim"]
  /\ UNCHANGED <<writer, calls, rets, local>>
  /\ PQStepFrame

\* pq.swim(pq.size())
PushSwim(t) ==
  /\ pc[t] = "PushSwim"
  /\ IF OutOfRange(cpq)
       THEN Panics(t) /\ UNCHANGED cpq
       ELSE /\ cpq' = swim(cpq, size(cpq))
            /\ pc' = [pc EXCEPT ![t] = "PushUnlock"]
  /\ UNCHANGED <<writer, calls, rets, local>>
  /\ PQStepFrame

\* pq.Unlock(); return
PushUnlock(t) ==
  /\ pc[t] = "PushUnlock"
  /\ writer' = 0
  /\ calls' = [calls EXCEPT ![t] = calls[t] + 1]
  /\ local' = [local EXCEPT ![t] = NilItem]
  /\ pc' = [pc EXCEPT ![t] = "Lock"]
  /\ UNCHANGED <<rets, cpq>>
  /\ PQStepFrame

\* pq.Lock()
PQPopLock(t) ==
  /\ pc[t] = "Lock" /\ calls[t] < MAppends
  /\ Lock(writer, readers)
  /\ writer' = t
  /\ pc' = [pc EXCEPT ![t] = "PQPopTest"]
  /\ UNCHANGED <<calls, rets, cpq, local>>
  /\ PQStepFrame

\* if pq.size() < 1 { return nil, 0 }; var max *item = pq.items[1]
PQPopTest(t) ==
  /\ pc[t] = "PQPopTest"
  /\ IF size(cpq) < 1
       THEN /\ local' = [local EXCEPT ![t] = NilItem]
            /\ pc' = [pc EXCEPT ![t] = "PQPopUnlock"]
       ELSE IF OutOfRange(cpq)
         THEN Panics(t) /\ UNCHANGED local
         ELSE /\ local' = [local EXCEPT ![t] = cpq.items[1]]
              /\ pc' = [pc EXCEPT ![t] = "PQPopExch"]
  /\ UNCHANGED <<writer, calls, rets, cpq>>
  /\ PQStepFrame

\* pq.exch(1, pq.size())
PQPopExch(t) ==
  /\ pc[t] = "PQPopExch"
  /\ IF OutOfRange(cpq) \/ size(cpq) < 1
       THEN Panics(t) /\ UNCHANGED cpq
       ELSE /\ cpq' = exch(cpq, 1, size(cpq))
            /\ pc' = [pc EXCEPT ![t] = "PQPopSlice"]
  /\ UNCHANGED <<writer, calls, rets, local>>
  /\ PQStepFrame

\* pq.items = pq.items[0:pq.size()]
PQPopSlice(t) ==
  /\ pc[t] = "PQPopSlice"
  /\ IF OutOfRange(cpq) \/ size(cpq) < 1
       THEN Panics(t) /\ UNCHANGED cpq
       ELSE /\ cpq' = [cpq EXCEPT !.items = slice(cpq.items, 0, size(cpq))]
            /\ pc' = [pc EXCEPT ![t] = "PQPopCount"]
  /\ UNCHANGED <<writer, calls, rets, local>>
  /\ PQStepFrame

\* pq.elemsCount -= 1
PQPopCount(t) ==
  /\ pc[t] = "PQPopCount"
  /\ cpq' = [cpq EXCEPT !.elemsCount = cpq.elemsCount - 1]
  /\ pc' = [pc EXCEPT ![t] = "PQPopSink"]
  /\ UNCHANGED <<writer, calls, rets, local>>
  /\ PQStepFrame

\* pq.sink(1)
PQPopSink(t) ==
  /\ pc[t] = "PQPopSink"
  /\ IF OutOfRange(cpq) \/ size(cpq) < 0
       THEN Panics(t) /\ UNCHANGED cpq
       ELSE /\ cpq' = sink(cpq, 1)
            /\ pc' = [pc EXCEPT ![t] = "PQPopUnlock"]
  /\ UNCHANGED <<writer, calls, rets, local>>
  /\ PQStepFrame

\* defer pq.Unlock(); return max.value, max.priority (or nil, 0)
PQPopUnlock(t) ==
  /\ pc[t] = "PQPopUnlock"
  /\ writer' = 0
  /\ rets' = [rets EXCEPT ![t] =
                Append(rets[t], IF local[t].ptr
                                  THEN [value |-> local[t].value,
                                        priority |-> local[t].priority]
                                  ELSE NoItem)]
  /\ calls' = [calls EXCEPT ![t] = calls[t] + 1]
  /\ local' = [local EXCEPT ![t] = NilItem]
  /\ pc' = [pc EXCEPT ![t] = "Lock"]
  /\ UNCHANGED cpq
  /\ PQStepFrame

\* A PQueue of either kind shared by threads that push and pop.
PQSharedInit ==
  /\ \E pqType \in {MAXPQ, MINPQ} : cpq = NewPQueue(pqType)
  /\ inst = "pq"
  /\ cdeque = NewDeque
  /\ writer = 0 /\ readers = {}
  /\ pc = [t \in Threads |-> "Lock"]
  /\ calls = [t \in Threads |-> 0]
  /\ ok = [t \in Threads |-> FALSE]
  /\ snap = [t \in Threads |-> <<>>]
  /\ rets = [t \in Threads |-> <<>>]
  /\ local = [t \in Threads |-> NilItem]
  /\ got = [t \in Threads |-> ToString(Zero)]

PQSharedNext ==
  \E t \in Threads :
    \/ \E priority \in SharedPriorities : Budget /\ PushLock(t, priority)
    \/ PushAppend(t)
    \/ PushCount(t)
    \/ PushSwim(t)
    \/ PushUnlock(t)
    \/ Budget /\ PQPopLock(t)
    \/ PQPopTest(t)
    \/ PQPopExch(t)
    \/ PQPopSlice(t)
    \/ PQPopCount(t)
    \/ PQPopSink(t)
    \/ PQPopUnlock(t)

\* ------------------------------------------- the read methods, by threads
\* A faulty RLock: it is granted while a writer holds the lock.
RLockIgnoresWriter(w) == TRUE

\* RLock is granted when no writer holds the lock; the readers already inside
\* do not matter.
RLock(w) == w = 0

\* A faulty RUnlock: the reader stays registered.
RUnlockKeeps(r, t) == r

RUnlock(r, t) == r \ {t}

DequeReads == {"First", "Last", "Size", "Capacity", "Empty", "Full"}
PQReads == {"PQHead", "PQSize", "PQEmpty"}

\* s.RLock() of the deque's read method m
ReadRLock(t, m) ==
  /\ pc[t] = "Lock" /\ calls[t] < MAppends
  /\ RLock(writer)
  /\ readers' = readers \cup {t}
  /\ pc' = [pc EXCEPT ![t] = m]
  /\ UNCHANGED <<cdeque, writer, calls, ok, snap, rets>>
  /\ DequeStepFrame

\* The value the deque's read method m returns.
DequeRead(s, m) ==
  CASE m = "First" -> Deque_First(s)
    [] m = "Last" -> Deque_Last(s)
    [] m = "Size" -> Deque_Size(s)
    [] m = "Capacity" -> Deque_Capacity(s)
    [] m = "Empty" -> Deque_Empty(s)
    [] m = "Full" -> Deque_Full(s)

\* the method's body; defer s.RUnlock()
ReadReturn(t) ==
  /\ pc[t] \in DequeReads
  /\ LET r == DequeRead(cdeque, pc[t])
     IN  /\ cdeque' = r.s
         /\ got' = [got EXCEPT ![t] = ToString(r.ret)]
  /\ readers' = RUnlock(readers, t)
  /\ calls' = [calls EXCEPT ![t] = calls[t] + 1]
  /\ pc' = [pc EXCEPT ![t] = "Lock"]
  /\ UNCHANGED <<writer, ok, snap, rets>>
  /\ UNCHANGED <<dequeVars, pqVars, queueVars, stackVars>>
  /\ UNCHANGED <<cpq, inst, local>>

\* pq.RLock() of the priority queue's read method m
PQReadRLock(t, m) ==
  /\ pc[t] = "Lock" /\ calls[t] < MAppends
  /\ RLock(writer)
  /\ readers' = readers \cup {t}
  /\ pc' = [pc EXCEPT ![t] = m]
  /\ UNCHANGED <<cdeque, writer, calls, ok, snap, rets>>
  /\ DequeStepFrame

\* The value the priority queue's read method m returns.
PQRead(q, m) ==
  CASE m = "PQHead" -> PQueue_Head(q)
    [] m = "PQSize" -> PQueue_Size(q)
    [] m = "PQEmpty" -> PQueue_Empty(q)

\* the method's body; defer pq.RUnlock()
PQReadReturn(t) ==
  /\ pc[t] \in PQReads
  /\ LET r == PQRead(cpq, pc[t])
     IN  /\ cpq' = r.pq
         /\ got' = [got EXCEPT ![t] = ToString(r.ret)]
         /\ IF r.panic THEN Panics(t)
                       ELSE pc' = [pc EXCEPT ![t] = "Lock"]
  /\ readers' = RUnlock(readers, t)
  /\ calls' = [calls EXCEPT ![t] = calls[t] + 1]
  /\ UNCHANGED <<writer, rets, local>>
  /\ UNCHANGED <<dequeVars, pqVars, queueVars, stackVars>>
  /\ UNCHANGED <<cdeque, ok, snap, inst>>

\* ------------------------------------ a container shared for every method
\* The threads share one container, a deque or a priority queue; writer and
\* readers are the state of that container's RWMutex.
ThreadsInit ==
  /\ inst \in {"deque", "pq"}
  /\ cdeque = NewDeque
  /\ cpq = NewPQueue(MAXPQ)
  /\ writer = 0 /\ readers = {}
  /\ pc = [t \in Threads |-> "Lock"]
  /\ calls = [t \in Threads |-> 0]
  /\ ok = [t \in Threads |-> FALSE]
  /\ snap = [t \in Threads |-> <<>>]
  /\ rets = [t \in Threads |-> <<>>]
  /\ local = [t \in Threads |-> NilItem]
  /\ got = [t \in Threads |-> ToString(Zero)]

\* Thread t starts a call on the shared container.
Starts(t) ==
  /\ Started < MOps
  /\ \/ /\ inst = "deque"
        /\ \/ AppendLock(t)
           \/ PrependLock(t)
           \/ \E m \in Removers : RemoveLock(t, m)
           \/ \E m \in DequeReads : ReadRLock(t, m)
     \/ /\ inst = "pq"
        /\ \/ \E priority \in SharedPriorities : PushLock(t, priority)
           \/ PQPopLock(t)
           \/ \E m \in PQReads : PQReadRLock(t, m)

\* Thread t takes the next step of the call it is in.
Continues(t) ==
  \/ AppendTest(t)
  \/ AppendPushBack(t)
  \/ AppendLink(t)
  \/ AppendUnlock(t)
  \/ PrependTest(t)
  \/ PrependPushFront(t)
  \/ PrependLink(t)
  \/ PrependUnlock(t)
  \/ RemoveTest(t)
  \/ RemoveRemove(t)
  \/ RemoveUnlock(t)
  \/ ReadReturn(t)
  \/ PushAppend(t)
  \/ PushCount(t)
  \/ PushSwim(t)
  \/ PushUnlock(t)
  \/ PQPopTest(t)
  \/ PQPopExch(t)
  \/ PQPopSlice(t)
  \/ PQPopCount(t)
  \/ PQPopSink(t)
  \/ PQPopUnlock(t)
  \/ PQReadReturn(t)

ThreadStep(t) == Starts(t) \/ Continues(t)

ThreadsNext == \E t \in Threads : ThreadStep(t)

\* --------------------------------------------------------- specifications
\* Each specification drives one container and leaves the others as built.
SpecDequeInit == DequeInit /\ PQIdle /\ QueueInit /\ StackInit /\ ConcInit
SpecDeque == SpecDequeInit /\ [][DequeNext]_vars

SpecPQInit == DequeIdle /\ PQInit /\ QueueInit /\ StackInit /\ ConcInit
SpecPQ == SpecPQInit /\ [][PQNext]_vars

IdleInit == DequeIdle /\ PQIdle /\ QueueInit /\ StackInit /\ ConcInit
SpecQueue == IdleInit /\ [][QueueNext]_vars

SpecStack == IdleInit /\ [][StackNext]_vars

SpecConc == IdleInit /\ [][ConcNext]_vars

SpecCappedInit == DequeIdle /\ PQIdle /\ QueueInit /\ StackInit /\ CappedInit
SpecCapped == SpecCappedInit /\ [][CappedNext]_vars

SpecPQSharedInit == DequeIdle /\ PQIdle /\ QueueInit /\ StackInit /\ PQSharedInit
SpecPQShared == SpecPQSharedInit /\ [][PQSharedNext]_vars

SpecThreadsInit == DequeIdle /\ PQIdle /\ QueueInit /\ StackInit /\ ThreadsInit
SpecThreads == SpecThreadsInit /\ [][ThreadsNext]_vars

\* The scheduler lets every thread that can take a step take one eventually.
SpecThreadsFair == SpecThreads /\ \A t \in Threads : WF_vars(ThreadStep(t))

\* A deque or a priority queue, one caller: each behaviour drives one of the
\* two, the other stays as built (no state is shared between instances).
SpecContainersInit ==
  /\ \/ DequeInit /\ PQIdle
     \/ DequeIdle /\ PQInit
  /\ QueueInit /\ StackInit /\ ConcInit

ContainersNext ==
  \/ pqOp = "New" /\ pq = NewPQueue(MAXPQ) /\ DequeNext
  \/ dOp = "New" /\ deque = NewDeque /\ PQNext

SpecContainers == SpecContainersInit /\ [][ContainersNext]_vars

\* ------------------------------------------------------------ properties
\* C1: on a deque of capacity c >= 0 holding c items, Append and Prepend
\* return false and leave the sequence and Size() as they were; below
\* capacity, or on an unbounded deque, they return true and Size() grows by 1.
C1_CapacityContract ==
  dOp \in {"Append", "Prepend"} =>
    IF deque.capacity >= 0 /\ Len(dPre) = deque.capacity
      THEN /\ dRet = FALSE
           /\ deque.container = dPre
           /\ Deque_Size(deque).ret = Len(dPre)
      ELSE (deque.capacity < 0 \/ Len(dPre) < deque.capacity) =>
             /\ dRet = TRUE
             /\ Deque_Size(deque).ret = Len(dPre) + 1

C1_Witness ==
  /\ dOp = "Prepend" /\ deque.capacity = 2 /\ Len(dPre) = 2
  /\ dRet = FALSE /\ removals > 0

\* C2: the deque's content is the reference sequence (Append adds at the
\* tail, Prepend at the head, Pop takes the tail, Shift the head), and Pop,
\* Shift, First and Last return what the reference sequence says.
C2_ReferenceSequence ==
  /\ deque.container = ref
  /\ refRet # <<>> => dRet = refRet[1]

C2_Witness ==
  /\ dOp = "First" /\ Len(ref) = 2 /\ ref[1] # ref[2]
  /\ dRet = ref[1] /\ Deque_Last(deque).ret = ref[2]
  /\ removals > 0

\* C3: on an unbounded deque Size() is the number of inserts that returned
\* true minus the number of Pop/Shift calls made on a non-empty deque; it is
\* never negative, and Pop or Shift on an empty deque leaves it at 0.
C3_SizeAccounting ==
  deque.capacity < 0 =>
    /\ Deque_Size(deque).ret = inserts - removals
    /\ Deque_Size(deque).ret >= 0
    /\ (dOp \in {"Pop", "Shift"} /\ dPre = <<>>) => Deque_Size(deque).ret = 0

C3_Witness ==
  /\ deque.capacity < 0 /\ dOp \in {"Pop", "Shift"} /\ dPre = <<>>
  /\ inserts = 2 /\ removals = 2

\* C7: on an empty deque Pop, Shift, First and Last return the zero value
\* without a fault, and the deque is still empty afterwards.
C7_EmptyDeque ==
  (dOp \in {"Pop", "Shift", "First", "Last"} /\ dPre = <<>>) =>
    /\ dRet = Zero
    /\ ~dPanic
    /\ Deque_Size(deque).ret = 0
    /\ Deque_Empty(deque).ret = TRUE

C7_Witness ==
  /\ dOp = "Shift" /\ dPre = <<>> /\ dRet = Zero /\ inserts > 0

\* The pairs stored in the heap.
Stored(q) == {[value |-> q.items[i].value, priority |-> q.items[i].priority] :
                i \in 1..size(q)}

\* a comes no later than b in the queue's order.
Dominates(q, a, b) == IF q.comparator = "max" THEN a >= b ELSE a <= b

\* C4: Head() returns a stored pair whose priority is the maximum (MAXPQ) or
\* the minimum (MINPQ) of the stored priorities.
C4_HeadIsExtremum ==
  size(pq) >= 1 =>
    LET h == PQueue_Head(pq).ret
    IN  /\ h \in Stored(pq)
        /\ \A e \in Stored(pq) : Dominates(pq, h.priority, e.priority)
        /\ pqOp = "Head" => pqRet = h

C4_Witness ==
  /\ pqOp = "Head" /\ pq.comparator = "max" /\ size(pq) >= 3
  /\ pqRet.priority = MaxPri
  /\ \E e \in Stored(pq) : e.priority < MaxPri
  /\ pq.items[size(pq)].priority = MaxPri

\* C5: the Pops made after the last Push return priorities in non-increasing
\* (MAXPQ) or non-decreasing (MINPQ) order, and once they are as many as the
\* Pushes made the queue is empty; each Pop returns a stored pair, value and
\* priority together, that comes first in the queue's order.
C5_PopsInOrder ==
  /\ \A i, j \in 1..Len(popped) :
       i < j => Dominates(pq, popped[i].priority, popped[j].priority)
  /\ (pushes > 0 /\ Len(popped) = pushes) =>
       /\ PQueue_Empty(pq).ret = TRUE
       /\ PQueue_Size(pq).ret = 0
  /\ (pqOp = "Pop" /\ size(pqPre) >= 1) =>
       /\ pqRet \in Stored(pqPre)
       /\ \A e \in Stored(pqPre) : Dominates(pq, pqRet.priority, e.priority)

C5_Witness ==
  /\ pq.comparator = "min" /\ pushes = MaxHeap /\ Len(popped) = pushes
  /\ popped[1].priority = 0 /\ popped[Len(popped)].priority = MaxPri
  /\ \E i \in 1..Len(popped) : popped[i].priority \notin {0, MaxPri}

\* C8: on an empty priority queue Pop and Head return the zero value with
\* priority 0 without a fault and leave the queue as a fresh one: size 0 and
\* only the nil entry at index 0.
C8_EmptyPQueue ==
  (pqOp \in {"Pop", "Head"} /\ size(pqPre) = 0) =>
    /\ pqRet = [value |-> Zero, priority |-> 0]
    /\ ~pqPanic
    /\ pq = pqPre
    /\ PQueue_Size(pq).ret = 0
    /\ DOMAIN pq.items = {0} /\ pq.items[0] = NilItem
    /\ \E pqType \in {MAXPQ, MINPQ} : pq = NewPQueue(pqType)

C8_Witness ==
  /\ pqOp = "Pop" /\ size(pqPre) = 0 /\ pushes > 0 /\ pops = pushes

\* C9: the k-th Dequeue made on a non-empty queue returns the k-th item
\* enqueued; Head returns that same item without removing it, the item the
\* next Dequeue returns.
C9_QueueFIFO ==
  /\ qExp # <<>> => qRet = qExp[1]
  /\ qOp = "Head" => queue.container = qPre
  /\ Queue_Head(queue).ret = Queue_Dequeue(queue).ret

C9_Witness ==
  /\ qOp = "Dequeue" /\ nDeq = 2 /\ Len(enqLog) = 3
  /\ enqLog[1] # enqLog[2] /\ enqLog[2] # enqLog[3]
  /\ qRet = enqLog[2]

\* C10: Pop on a non-empty stack returns the latest pushed item not yet
\* popped; Head returns that same item without removing it, the item the next
\* Pop returns.
C10_StackLIFO ==
  /\ sExp # <<>> => sRet = sExp[1]
  /\ sOp = "Head" => stack.container = sPre
  /\ Stack_Head(stack).ret = Stack_Pop(stack).ret

C10_Witness ==
  /\ sOp = "Pop" /\ Len(pushLog) = 4 /\ poppedIdx = {2, 4}
  /\ pushLog[3] # pushLog[4] /\ sRet = pushLog[4]

\* The places of item in the sequence l.
Places(l, item) == {i \in 1..Len(l) : l[i] = item}

AllDone == \A t \in Threads : calls[t] = MAppends /\ pc[t] = "Lock"

\* C6: once every thread has made its MAppends Append calls, every call has
\* returned true, Size() is NThreads * MAppends, every appended item is in
\* the deque exactly once, and each thread's items are in the order it
\* appended them.
C6_ConcurrentAppends ==
  AllDone =>
    /\ \A t \in Threads : rets[t] = [k \in 1..MAppends |-> TRUE]
    /\ Deque_Size(cdeque).ret = NThreads * MAppends
    /\ \A t \in Threads, k \in 1..MAppends :
         Cardinality(Places(cdeque.container, <<t, k>>)) = 1
    /\ \A t \in Threads, j, k \in 1..MAppends :
         j < k => \A a \in Places(cdeque.container, <<t, j>>),
                     b \in Places(cdeque.container, <<t, k>>) : a < b

C6_Witness ==
  /\ AllDone
  /\ cdeque.container[1][1] # cdeque.container[2][1]
  /\ cdeque.container[2][1] # cdeque.container[3][1]


\* C12: Capacity() returns -1 on every deque that never refuses an insert
\* (NewDeque, or NewCappedDeque with a negative argument) and the bound given
\* at construction on a bounded one.
C12_CapacityMinusOneIfUnlimited ==
  dOp = "Capacity" =>
    dRet = IF deque.capacity < 0 THEN 0 - 1 ELSE deque.capacity

\* C13: after every Push and Pop the entry at k \div 2 has a priority >= (MAXPQ)
\* or <= (MINPQ) that of the entry at k, for every 1 < k <= Size().
C13_HeapOrder ==
  /\ DOMAIN pq.items = 0..PQueue_Size(pq).ret
  /\ \A k \in 2..PQueue_Size(pq).ret :
       Dominates(pq, pq.items[k \div 2].priority, pq.items[k].priority)

C13_Witness ==
  /\ pqOp = "Pop" /\ size(pq) = 3 /\ pops = 1
  /\ pq.items[1].priority # pq.items[2].priority
  /\ pq.items[1].priority # pq.items[3].priority
  /\ pq.items[1] # pqPre.items[size(pqPre)]

\* C16: Full() is true exactly when an Append or a Prepend made now would
\* return false; it is false on an unbounded deque, and a deque of capacity 0
\* is full and empty at once.
C16_FullIffInsertRefused ==
  /\ \A item \in Items :
       /\ Deque_Full(deque).ret = ~Deque_Append(deque, item).ret
       /\ Deque_Full(deque).ret = ~Deque_Prepend(deque, item).ret
  /\ deque.capacity < 0 => Deque_Full(deque).ret = FALSE
  /\ deque.capacity = 0 => Deque_Full(deque).ret /\ Deque_Empty(deque).ret
  /\ dOp = "Full" => dRet = Deque_Full(deque).ret

C16_Witness ==
  /\ dOp = "Full" /\ dRet = TRUE /\ deque.capacity = 2
  /\ Len(deque.container) = 2 /\ removals > 0


\* How many times each pair is held in the heap.
Held(q) ==
  [p \in Pairs |->
     Cardinality({i \in 1..size(q) :
                    /\ q.items[i].value = p.value
                    /\ q.items[i].priority = p.priority})]

\* C18: the pairs held in the heap are, with their multiplicities, the pairs
\* pushed and not yet returned by a Pop; a Pop on a non-empty queue returns
\* one of them, value and priority together; Size() is the number of Pushes
\* minus the number of Pops made on a non-empty queue.
C18_PairsConserved ==
  /\ Held(pq) = live
  /\ \A p \in Pairs : live[p] >= 0
  /\ (pqOp = "Pop" /\ size(pqPre) >= 1) =>
       /\ Held(pqPre)[pqRet] >= 1
       /\ Held(pq) = [Held(pqPre) EXCEPT ![pqRet] = @ - 1]
  /\ PQueue_Size(pq).ret = pushes - pops

C18_Witness ==
  /\ pqOp = "Pop" /\ size(pqPre) = 3 /\ pushes = 4 /\ pops = 2
  /\ \E p \in Pairs : live[p] = 2
  /\ Held(pqPre)[pqRet] = 1


\* The floor of the base-2 logarithm of n >= 1.
Log2(n) == CHOOSE e \in 0..n : 2 ^ e <= n /\ n < 2 ^ (e + 1)

\* C20: the swim of a Push and the sink of a Pop end after at most
\* floor(log2(n)) exchanges, n the number of entries when the loop starts;
\* swim does not go below index 1 and sink reads no index above Size().
C20_LoopsBounded ==
  /\ \A value \in Values, priority \in Priorities :
       LET q == beforeSwim(pq, value, priority)
           tr == swimTrace(q, size(q))
       IN  /\ swim(q, size(q)) = PQueue_Push(pq, value, priority).pq
           /\ tr.exch <= Log2(size(q))
           /\ tr.k >= 1
  /\ size(pq) >= 1 =>
       LET q == beforeSink(pq)
           tr == sinkTrace(q, 1)
       IN  /\ sink(q, 1) = PQueue_Pop(pq).pq
           /\ size(q) >= 1 => tr.exch <= Log2(size(q))
           /\ size(q) = 0 => tr.exch = 0
           /\ \A i \in tr.reads : 1 <= i /\ i <= size(q)

C20_Witness ==
  /\ pqOp = "Push" /\ size(pq) = 4
  /\ pq.items[1] # pqPre.items[1]
  /\ pq.items[2] = pqPre.items[1] /\ pq.items[4] = pqPre.items[2]
  /\ \E value \in Values, priority \in Priorities :
       /\ pq = PQueue_Push(pqPre, value, priority).pq
       /\ LET q == beforeSwim(pqPre, value, priority)
          IN  swimTrace(q, size(q)) = [exch |-> Log2(4), k |-> 1]


\* C11: First, Last, Size, Capacity, Empty and Full leave the deque's sequence
\* as it is; Head, Size and Empty leave the heap array and the count as they
\* are; no call changes the deque's capacity or the queue's ordering.
C11_ReadsDoNotMutate ==
  [][/\ (DoFirst \/ DoLast \/ DoSize \/ DoCapacity \/ DoEmpty \/ DoFull) =>
          deque'.container = deque.container
     /\ (DoPQHead \/ DoPQSize \/ DoPQEmpty) =>
          /\ pq'.items = pq.items
          /\ pq'.elemsCount = pq.elemsCount
     /\ deque'.capacity = deque.capacity
     /\ pq'.comparator = pq.comparator]_vars

C11_Witness ==
  /\ dOp = "First" /\ Len(dPre) = 2 /\ deque.container = dPre
  /\ deque.capacity = 2 /\ dRet = dPre[1]


\* The insert calls that returned true.
Accepted == {c \in Threads \X (1..MAppends) :
               c[2] <= Len(rets[c[1]]) /\ rets[c[1]][c[2]]}

\* Every call completed so far was an Append or a Prepend.
InsertsOnly == \A t \in Threads : Len(rets[t]) = calls[t]

\* The threads have made all their calls.
Finished == Sum(calls, Threads) = MCalls

\* C17: on a deque of capacity c >= 0 shared by threads calling Append,
\* Prepend, Pop and Shift, Size() is at most c in every state; and once the
\* threads have finished a run of inserts only, more than c in total, exactly
\* c of the calls have returned true.
C17_SharedCappedDeque ==
  /\ Deque_Size(cdeque).ret <= cdeque.capacity
  /\ (Finished /\ InsertsOnly /\ MCalls > cdeque.capacity)
       => Cardinality(Accepted) = cdeque.capacity

C17_Witness ==
  /\ Finished /\ InsertsOnly
  /\ cdeque.capacity = MaxCap
  /\ \A t \in {1, 2} : \E k \in 1..Len(rets[t]) : rets[t][k]
  /\ \A t \in {1, 2} : \E k \in 1..Len(rets[t]) : ~rets[t][k]


\* No thread is between the Lock and the Unlock of a Push or a Pop.
NoMutation == \A t \in Threads : pc[t] = "Lock"

\* The pairs the Pops have returned, as (thread, call) places in rets.
Returned == {c \in Threads \X (1..MCalls) :
               c[2] <= Len(rets[c[1]]) /\ rets[c[1]][c[2]] # NoItem}

\* The Pushes completed so far: the calls that are not Pops.
PushesDone == Sum(calls, Threads) - Sum([t \in Threads |-> Len(rets[t])], Threads)

\* C19: on a PQueue shared by threads that push and pop, whenever no mutation
\* is in progress the heap is ordered and elemsCount is len(items) - 1; no
\* pushed pair is returned by two Pops; and once the threads have finished,
\* Size() is the number of Pushes minus the number of Pops that found the
\* queue non-empty.
C19_SharedPQueue ==
  /\ NoMutation =>
       /\ size(cpq) = len(cpq.items) - 1
       /\ \A k \in 2..size(cpq) :
            Dominates(cpq, cpq.items[k \div 2].priority, cpq.items[k].priority)
  /\ \A a, b \in Returned :
       rets[a[1]][a[2]].value = rets[b[1]][b[2]].value => a = b
  /\ (Finished /\ NoMutation) =>
       PQueue_Size(cpq).ret = PushesDone - Cardinality(Returned)

C19_Witness ==
  /\ Finished /\ NoMutation
  /\ PushesDone = 3 /\ size(cpq) = 2
  /\ \E t \in Threads : Len(rets[t]) = 1 /\ rets[t][1] # NoItem
                        /\ rets[t][1].value % NThreads # t % NThreads
  /\ cpq.items[1].priority # cpq.items[2].priority


\* The threads inside the critical section of a mutating / of a read method.
Mutating == {t \in Threads : pc[t] \notin {"Lock", "Panic"} \cup DequeReads \cup PQReads}
Reading == {t \in Threads : pc[t] \in DequeReads \cup PQReads}

\* C14: at most one mutating operation is inside its critical section, and
\* while one is, no read operation is inside its own.
C14_WriterExcludesAll ==
  /\ Cardinality(Mutating) <= 1
  /\ Mutating # {} => Reading = {}

\* Two read operations are inside their critical sections at the same time.
C14_Witness ==
  /\ Cardinality(Reading) >= 2
  /\ readers = Reading /\ writer = 0


\* Thread t holds the lock exactly while it is inside a critical section: as
\* the writer inside a mutating method, as a reader inside a read method.
HoldsWhileInside(t) ==
  /\ writer = t <=> t \in Mutating
  /\ t \in readers <=> t \in Reading

\* Every call has been made and has returned, and the lock is free.
AllReturned ==
  /\ Sum(calls, Threads) = MOps
  /\ \A t \in Threads : pc[t] = "Lock"
  /\ writer = 0 /\ readers = {}

\* C15: a thread holds the instance lock exactly while it is inside one
\* operation and holds nothing once the operation has returned; under fair
\* scheduling every operation a thread is in returns, and all the calls the
\* threads make get made and return, leaving the lock free.
C15_EveryOperationCompletes ==
  /\ [](\A t \in Threads : HoldsWhileInside(t) /\ pc[t] # "Panic")
  /\ \A t \in Threads : (pc[t] # "Lock") ~> (pc[t] = "Lock")
  /\ <>[]AllReturned

C15_Witness ==
  /\ AllReturned
  /\ \A t \in Threads : calls[t] >= 1
  /\ Deque_Size(cdeque).ret + PQueue_Size(cpq).ret >= 1

====
